---- MODULE Spec2Model ----
(***************************************************************************)
(* OnTrack: the server side caching pipeline of api/schedule.ts,           *)
(* api/stations.ts and api/_utils/tdx.ts (token slot, timetable cache,     *)
(* station cache, live delay cache) and the client request cache of        *)
(* src/api/client.ts (station cache, in-flight registry, 429 backoff) as   *)
(* state machines.  Times are milliseconds, as Date.now() returns them.    *)
(* A handler runs atomically between two network waits (a single threaded  *)
(* event loop); the network waits are the interleaving points.             *)
(***************************************************************************)
EXTENDS Integers, Sequences, FiniteSets, TLC

\* ------------------------------------------------------------------ bounds
\* The clock advances in steps of Tick ms, MaxTicks times at most.
Tick == 150000
MaxTicks == 3
\* The live board is republished at most MaxVer - 1 times.
MaxVer == 2
\* The token endpoint issues at most MaxTok tokens.
MaxTok == 2
\* After the long step the clock goes on for MaxLate steps past the hour.
MaxLate == 1
\* Concurrent invocations of the schedule handler in one instance.
Reqs == {1, 2}
\* Components of one browser tab that call api.getStations.
NumCallers == 2
\* api.getStations is called during the first MaxCNow ms of a tab, and
\* again during MaxCNow ms around the end of the first hour.
MaxCNow == 2000
\* /api/stations serves at most NumVals different station lists.
NumVals == 2

\* --------------------------------------------------------- program constants
TIMETABLE_CACHE_TTL == 60 * 60 * 1000
DELAY_CACHE_MIN_TTL == 5 * 60 * 1000
\* tdx.ts line 49: expires_in * 1000 - 60000
TOKEN_SAFETY_MARGIN == 60000
\* stations.ts line 6
CACHE_TTL == 60 * 60 * 1000
\* client.ts (Cache Mechanics section 2.2)
STATIONS_CACHE_TTL == 60 * 60 * 1000
\* client.ts (Cache Mechanics section 2.4): retryCount < 3
MAX_RETRIES == 3

\* null / undefined of the source
NoToken == 0
NoLM == 0
NoTime == -1
EmptyMap == [t \in {} |-> 0]

\* ------------------------------------------------------------ environment
\* expires_in (seconds) values the token endpoint may report.
Lifetimes == {60, 360}

Digits == {"0", "1", "2", "3", "4", "5", "6", "7", "8", "9"}
Letters == {"A", "B", "C", "D", "E", "F", "G", "H", "I", "J", "K", "L", "M",
            "N", "O", "P", "Q", "R", "S", "T", "U", "V", "W", "X", "Y", "Z",
            "a", "b", "c", "d", "e", "f", "g", "h", "i", "j", "k", "l", "m",
            "n", "o", "p", "q", "r", "s", "t", "u", "v", "w", "x", "y", "z"}

\* A query parameter of req.query: absent, one string (a sequence of
\* characters) or an array (a repeated parameter).
Absent == [kind |-> "absent", s |-> <<>>]
Str(s) == [kind |-> "string", s |-> s]
Arr == [kind |-> "array", s |-> <<>>]

St1000 == <<"1", "0", "0", "0">>
St1008 == <<"1", "0", "0", "8">>
St1010 == <<"1", "0", "1", "0">>

\* JavaScript truthiness of a query parameter: undefined and "" are falsy,
\* any array is truthy.
Truthy(p) == p.kind = "array" \/ (p.kind = "string" /\ Len(p.s) > 0)

\* A variant without the length limit.
isValidStationId_NoLength(p) ==
    /\ p.kind = "string"
    /\ Len(p.s) >= 1
    /\ \A i \in 1..Len(p.s) : p.s[i] \in Digits \cup Letters \cup {"-"}

\* isValidStationId: typeof string, /^[A-Z0-9-]+$/i, length <= 10
isValidStationId(p) ==
    /\ p.kind = "string"
    /\ Len(p.s) >= 1
    /\ \A i \in 1..Len(p.s) : p.s[i] \in Digits \cup Letters \cup {"-"}
    /\ Len(p.s) <= 10

\* isValidDate: typeof string, /^\d{4}-\d{2}-\d{2}$/
isValidDate(p) ==
    /\ p.kind = "string"
    /\ Len(p.s) = 10
    /\ \A i \in {1, 2, 3, 4, 6, 7, 9, 10} : p.s[i] \in Digits
    /\ p.s[5] = "-"
    /\ p.s[8] = "-"

\* new Date().toLocaleDateString('en-CA', {timeZone: 'Asia/Taipei'}): the
\* calendar days the model's clock can fall in, StartOfDay2 being the first
\* millisecond of the second one.
Day1 == <<"2", "0", "2", "5", "-", "0", "1", "-", "0", "1">>
Day2 == <<"2", "0", "2", "5", "-", "0", "1", "-", "0", "2">>
StartOfDay2 == 24 * 60 * 60 * 1000
TodayOf(t) == IF t < StartOfDay2 THEN Day1 ELSE Day2

\* ---------------------------------------------------------- upstream data
\* The daily timetable document the upstream serves.
Stop(id, name, arr, dep) ==
    [StationID |-> id, StationName |-> name, ArrivalTime |-> arr,
     DepartureTime |-> dep]
TimetableDoc ==
    << [TrainNo |-> "102", TrainTypeName |-> "Local", Direction |-> 0,
        StopTimes |-> << Stop(St1000, "A", <<"0","9","0","0">>, <<"0","9","0","2">>),
                         Stop(St1008, "B", <<"0","9","3","0">>, <<"0","9","3","2">>) >>],
       [TrainNo |-> "101", TrainTypeName |-> "Express", Direction |-> 0,
        StopTimes |-> << Stop(St1000, "A", <<"0","8","0","0">>, <<"0","8","0","2">>),
                         Stop(St1010, "C", <<"0","8","1","0">>, <<"0","8","1","2">>),
                         Stop(St1008, "B", <<"0","8","3","0">>, <<"0","8","3","2">>) >>],
       [TrainNo |-> "201", TrainTypeName |-> "Local", Direction |-> 1,
        StopTimes |-> << Stop(St1008, "B", <<"1","0","0","0">>, <<"1","0","0","2">>),
                         Stop(St1000, "A", <<"1","0","3","0">>, <<"1","0","3","2">>) >>],
       [TrainNo |-> "301", TrainTypeName |-> "Local", Direction |-> 0,
        StopTimes |-> << Stop(St1000, "A", <<"1","1","0","0">>, <<"1","1","0","2">>),
                         Stop(St1010, "C", <<"1","1","1","0">>, <<"1","1","1","2">>) >>] >>

\* The body of a timetable answer: the document of the date asked for, with
\* its TrainDate and its TrainTimetables array, or the JSON value null.
TimetableOf(date) ==
    [isNull |-> FALSE, TrainDate |-> date, TrainTimetables |-> TimetableDoc]
NullTimetable == [isNull |-> TRUE, TrainDate |-> <<>>, TrainTimetables |-> <<>>]
\* allTrains before its assignment
NoTimetable == [isNull |-> FALSE, TrainDate |-> <<>>, TrainTimetables |-> <<>>]

\* One record of the TrainLiveBoards array; DelayTime is optional.
Live(no, d) == [TrainNo |-> no, hasDelay |-> TRUE, DelayTime |-> d]
LiveNoDelay(no) == [TrainNo |-> no, hasDelay |-> FALSE, DelayTime |-> 0]

\* The live board payload of each published version: version 2 lists only
\* train 101, twice; later versions list one train.
LiveBoard(v) ==
    CASE v = 1 -> << Live("101", 0), LiveNoDelay("102"), Live("201", 5),
                     Live("301", -2) >>
      [] v = 2 -> << Live("101", 7), Live("101", 3) >>
      [] OTHER -> << Live("301", v) >>

\* One record of the Station resource.
TDXStation(id, zh, en) == [StationID |-> id, StationName |-> [Zh_tw |-> zh, En |-> en]]

\* The answers of the Station resource: the array itself, or an object
\* wrapping it in a Stations property.
StationList == << TDXStation(St1000, "A", "Alpha"), TDXStation(St1008, "B", "Beta") >>
StationPayloads ==
    { [isArray |-> TRUE, hasStations |-> FALSE, items |-> StationList],
      [isArray |-> FALSE, hasStations |-> TRUE, items |-> StationList] }

\* ------------------------------------------------------- pure functions
\* stations.ts lines 39-45: (Array.isArray(data) ? data : data.Stations || [])
\* mapped to {id, name, nameEn}.
StationsOf(data) ==
    LET list == IF data.isArray \/ data.hasStations THEN data.items ELSE <<>>
    IN [i \in 1..Len(list) |->
           [id |-> list[i].StationID, name |-> list[i].StationName.Zh_tw,
            nameEn |-> list[i].StationName.En]]

\* Map.set(k, v) on a map held as a function.
MapSet(m, k, v) == [x \in DOMAIN m \cup {k} |-> IF x = k THEN v ELSE m[x]]

\* schedule.ts lines 135-145: a fresh Map, then for each record in array
\* order delayMap.set(d.TrainNo, d.DelayTime ?? 0).
RECURSIVE DelayMapFrom(_, _)
DelayMapFrom(liveData, m) ==
    IF liveData = <<>> THEN m
    ELSE LET d == Head(liveData)
             delay == IF d.hasDelay THEN d.DelayTime ELSE 0
         IN DelayMapFrom(Tail(liveData), MapSet(m, d.TrainNo, delay))

BuildDelayMap(liveData) == DelayMapFrom(liveData, EmptyMap)

\* Array.prototype.find / indexOf over the stop list: the first index whose
\* StationID is the parameter's string, 0 when there is none.
FirstStop(stops, id) ==
    IF \E i \in 1..Len(stops) : stops[i].StationID = id
    THEN CHOOSE i \in 1..Len(stops) :
            /\ stops[i].StationID = id
            /\ \A j \in 1..(i - 1) : stops[j].StationID /= id
    ELSE 0

\* A variant that tests delay >= 0.
StatusOf_ZeroDelayed(delayMap, trainNo) ==
    IF trainNo \in DOMAIN delayMap
    THEN (IF delayMap[trainNo] >= 0 THEN "delayed" ELSE "on-time")
    ELSE "unknown"

\* schedule.ts lines 197-201
StatusOf(delayMap, trainNo) ==
    IF trainNo \in DOMAIN delayMap
    THEN (IF delayMap[trainNo] > 0 THEN "delayed" ELSE "on-time")
    ELSE "unknown"

\* schedule.ts line 211: delay || 0
DelayOf(delayMap, trainNo) ==
    IF trainNo \in DOMAIN delayMap THEN delayMap[trainNo] ELSE 0

\* A variant that keeps the trains that call at the destination first.
TransformTrain_NoOrder(t, origin, dest, delayMap) ==
    LET stops == t.StopTimes
        originIdx == FirstStop(stops, origin)
        destIdx == FirstStop(stops, dest)
    IN IF originIdx = 0 \/ destIdx = 0 THEN <<>>
       ELSE << [trainNo |-> t.TrainNo,
                trainType |-> t.TrainTypeName,
                direction |-> t.Direction,
                originStation |-> stops[originIdx].StationName,
                destinationStation |-> stops[destIdx].StationName,
                departureTime |-> stops[originIdx].DepartureTime,
                arrivalTime |-> stops[destIdx].ArrivalTime,
                delay |-> DelayOf(delayMap, t.TrainNo),
                status |-> StatusOf(delayMap, t.TrainNo)] >>

\* schedule.ts lines 177-214: the map callback's result for one train, the
\* empty sequence standing for null.
TransformTrain(t, origin, dest, delayMap) ==
    LET stops == t.StopTimes
        originIdx == FirstStop(stops, origin)
        destIdx == FirstStop(stops, dest)
    IN IF originIdx = 0 \/ destIdx = 0 THEN <<>>
       ELSE IF destIdx <= originIdx THEN <<>>
       ELSE << [trainNo |-> t.TrainNo,
                trainType |-> t.TrainTypeName,
                direction |-> t.Direction,
                originStation |-> stops[originIdx].StationName,
                destinationStation |-> stops[destIdx].StationName,
                departureTime |-> stops[originIdx].DepartureTime,
                arrivalTime |-> stops[destIdx].ArrivalTime,
                delay |-> DelayOf(delayMap, t.TrainNo),
                status |-> StatusOf(delayMap, t.TrainNo)] >>

\* .map(...).filter(t => t !== null)
RECURSIVE MapFilter(_, _, _, _)
MapFilter(all, origin, dest, delayMap) ==
    IF all = <<>> THEN <<>>
    ELSE TransformTrain(Head(all), origin, dest, delayMap)
            \o MapFilter(Tail(all), origin, dest, delayMap)

\* The collation rank of a digit character.
DigitVal(c) ==
    CHOOSE n \in 0..9 : <<"0", "1", "2", "3", "4", "5", "6", "7", "8", "9">>[n + 1] = c

\* a.localeCompare(b) <= 0 for two strings of digits
RECURSIVE StrLeq(_, _)
StrLeq(a, b) ==
    IF a = <<>> THEN TRUE
    ELSE IF b = <<>> THEN FALSE
    ELSE IF Head(a) = Head(b) THEN StrLeq(Tail(a), Tail(b))
    ELSE DigitVal(Head(a)) < DigitVal(Head(b))

\* trains.sort((a, b) => a.departureTime.localeCompare(b.departureTime)):
\* a stable sort, as an insertion of each train after its equals.
RECURSIVE InsertTrain(_, _)
InsertTrain(t, sorted) ==
    IF sorted = <<>> THEN <<t>>
    ELSE IF StrLeq(Head(sorted).departureTime, t.departureTime)
         THEN <<Head(sorted)>> \o InsertTrain(t, Tail(sorted))
         ELSE <<t>> \o sorted

RECURSIVE SortTrains(_)
SortTrains(ts) ==
    IF ts = <<>> THEN <<>>
    ELSE InsertTrain(ts[Len(ts)], SortTrains(SubSeq(ts, 1, Len(ts) - 1)))

\* schedule.ts lines 176-218: the trains of the response body.
TrainsOf(all, origin, dest, delayMap) ==
    SortTrains(MapFilter(all, origin, dest, delayMap))

\* ------------------------------------------------------------------ state
VARIABLES
    clock,           \* Date.now()
    creds,           \* which of TDX_CLIENT_ID / TDX_CLIENT_SECRET are set
    cachedToken,     \* tdx.ts module slot
    tokenExpiresAt,  \* tdx.ts module slot
    timetableCache,  \* schedule.ts Map: scheduleUrl -> {data, expires}
    delayCache,      \* schedule.ts slot: <<>> (null) or <<{data, lastModified, expires}>>
    req,             \* the handler invocations: position and locals
    ev,              \* what the last step sent, wrote and answered
    lbVer,           \* upstream: the live board's current version
    tokSeq,          \* upstream: tokens issued so far
    lastLiveAt,      \* history: when the last live board call was sent
    lastOkNow,       \* history: request time of the last live board call that succeeded
    stationsCache,   \* stations.ts slot: <<>> (null) or <<{data, expires}>>
    nodeEnv,         \* process.env.NODE_ENV
    cnow,                 \* the browser's Date.now()
    inflightRequests,     \* client.ts Map: retry generation of '/api/stations' -> pending call
    calls,                \* the invocations of fetchJson that are pending
    callers,              \* the invocations of api.getStations
    clientStationsCache,  \* client.ts stationsCache: <<>> (null) or <<{data, expires}>>
    cev                   \* what the last step of the client did

serverVars == <<clock, creds, cachedToken, tokenExpiresAt, timetableCache, delayCache,
                req, ev, lbVer, tokSeq, lastLiveAt, lastOkNow, stationsCache, nodeEnv>>

clientVars == <<cnow, inflightRequests, calls, callers, clientStationsCache, cev>>

vars == <<clock, creds, cachedToken, tokenExpiresAt, timetableCache, delayCache,
          req, ev, lbVer, tokSeq, lastLiveAt, lastOkNow, stationsCache, nodeEnv,
          cnow, inflightRequests, calls, callers, clientStationsCache, cev>>

\* The schedule query of the demonstration deployment and malformed ones.
GoodQuery == [origin |-> Str(St1000), dest |-> Str(St1008), date |-> Absent]
Queries ==
    { GoodQuery,
      [origin |-> Absent, dest |-> Str(St1008), date |-> Absent],
      [origin |-> Str(St1000), dest |-> Str(<<"1", "0", "0", "_">>), date |-> Absent],
      [origin |-> Str(St1000), dest |-> Str(St1008), date |-> Str(<<"t", "o", "d", "a", "y">>)] }

\* More schedule queries: a repeated origin parameter, an empty and an
\* eleven character dest, today's date spelled out, a repeated date.
St11 == <<"1", "0", "0", "0", "1", "0", "0", "0", "1", "0", "0">>
ApiQueries ==
    Queries \cup
    { [origin |-> Arr, dest |-> Str(St1008), date |-> Absent],
      [origin |-> Str(St1000), dest |-> Str(<<>>), date |-> Absent],
      [origin |-> Str(St1000), dest |-> Str(St11), date |-> Absent],
      [origin |-> Str(St1000), dest |-> Str(St1008), date |-> Str(Day1)],
      [origin |-> Str(St1000), dest |-> Str(St1008), date |-> Arr] }

\* The schedule queries around midnight: the demonstration query, its
\* reverse, a destination one of its trains does not reach, origin and
\* destination the same, and the two calendar days spelled out.
DayQueries ==
    { GoodQuery,
      [GoodQuery EXCEPT !.origin = Str(St1008), !.dest = Str(St1000)],
      [GoodQuery EXCEPT !.dest = Str(St1010)],
      [GoodQuery EXCEPT !.dest = Str(St1000)],
      [GoodQuery EXCEPT !.date = Str(Day1)],
      [GoodQuery EXCEPT !.date = Str(Day2)] }

Idle ==
    [pc |-> "idle", query |-> GoodQuery, now |-> NoTime, queryDate |-> <<>>,
     key |-> <<>>, allTrains |-> NoTimetable, tnow |-> NoTime, ims |-> NoLM,
     sentVer |-> 0]

\* A response: the invocation and the time it captured (line 86), its query
\* and timetable, the delay map it was built from and how that map was
\* obtained, the Cache-Control header and the status.
NoResp ==
    [by |-> 0, now |-> NoTime, endpoint |-> "none", query |-> GoodQuery, queryDate |-> <<>>,
     allTrains |-> NoTimetable, delayMap |-> EmptyMap, live |-> "none", stations |-> <<>>,
     cacheControl |-> {}, error |-> <<>>, status |-> 0]

\* A failed upstream GET: a network error (status 0) or a non-success status
\* with its response body.
NetworkError == [status |-> 0, body |-> ""]
UpstreamFailures ==
    { NetworkError, [status |-> 429, body |-> "quota exceeded"],
      [status |-> 500, body |-> "internal trace"] }

\* tdx.ts lines 183-188: the message of the Error fetchTDX throws; a
\* rejected fetch carries the runtime's own message.
ErrorMessage(f) ==
    IF f.status = 0 THEN <<"fetch failed">>
    ELSE <<"TDX API Error", f.status, f.body>>

\* schedule.ts lines 168-173: the directives of the Cache-Control header.
ScheduleCacheControl == {<<"s-maxage", 60>>, <<"stale-while-revalidate", 300>>}

\* schedule.ts lines 229-233
GenericScheduleError == <<"Failed to fetch schedule. Please try again.">>
ScheduleErrorBody(f) ==
    IF nodeEnv = "development" THEN ErrorMessage(f) ELSE GenericScheduleError

\* An outgoing call: to "token", "timetable" or "live", the bearer token it
\* carries with the expiry the code computed for it, and If-Modified-Since.
NoCall == [to |-> "none", token |-> NoToken, tokenExp |-> NoTime, ims |-> NoLM]
Call(to, token, tokenExp, ims) ==
    [to |-> to, token |-> token, tokenExp |-> tokenExp, ims |-> ims]

\* An upstream answer: of the token endpoint ("tokenOk" with expires_in,
\* "tokenRefused", "tokenNetErr"), of the timetable ("ttOk", "ttFail") or of
\* the live board ("data" with its payload and Last-Modified, "notModified",
\* "nullBody", "liveFail"; ims is the If-Modified-Since its call carried).
NoGot ==
    [kind |-> "none", payload |-> <<>>, lastModified |-> NoLM, ims |-> NoLM,
     expires_in |-> 0, error |-> <<>>]
Got(kind) == [NoGot EXCEPT !.kind = kind]
GotToken(expires_in) == [NoGot EXCEPT !.kind = "tokenOk", !.expires_in = expires_in]
GotLive(kind, payload, lastModified, ims) ==
    [NoGot EXCEPT !.kind = kind, !.payload = payload, !.lastModified = lastModified,
                  !.ims = ims]

\* tdx.ts lines 121-128: what fetchTDXWithCache returns on 304, {data: null,
\* lastModified: ifModifiedSince || null, notModified: true}.
NotModifiedResult_NullMarker(ifModifiedSince) ==
    GotLive("notModified", <<>>, NoLM, ifModifiedSince)
NotModifiedResult(ifModifiedSince) ==
    GotLive("notModified", <<>>, ifModifiedSince, ifModifiedSince)

\* tdx.ts lines 118 and 130-135: fetchTDXWithCache throws, the rejection of
\* fetch or an Error built from the status and the body.
ThrownResult(f, ifModifiedSince) ==
    [GotLive("liveFail", <<>>, NoLM, ifModifiedSince) EXCEPT !.error = ErrorMessage(f)]

\* What one step of an invocation did: the upstream answer it received, the
\* cache write it made ("timetable": Map.set; "replace": delayCache = {...};
\* "field": delayCache.expires = ...), the call it sent and the response it
\* sent.
NoEv == [by |-> 0, got |-> NoGot, sent |-> NoCall, write |-> "none", resp |-> NoResp]

\* ------------------------------------------------------------ client state
\* client.ts, as the Cache Mechanics document quotes it (sections 2.2-2.4).
\* One URL, '/api/stations'; the key `${url}-${retryCount}` of the in-flight
\* registry is represented by retryCount.
Callers == 1..NumCallers
Gens == 0..MAX_RETRIES
StationVals == 1..NumVals
\* A caller's promise chain holds at most MAX_RETRIES + 1 calls.
CallIds == 1..((MAX_RETRIES + 1) * NumCallers)

\* section 2.4: Math.pow(2, retryCount) * 1000
BackoffDelay_Linear(retryCount) == (retryCount + 1) * 1000
BackoffDelay(retryCount) == (2 ^ retryCount) * 1000

\* The browser's clock advances in steps of the shortest backoff delay.
CTick == BackoffDelay(0)

\* An invocation of fetchJson that created a promise: "fetching" (awaiting
\* fetch(url)), "sleeping" (awaiting the backoff timer set for wakeAt) or
\* "chained" (it returned the promise of the invocation next); "unused"
\* once that promise is settled.  at is the time its 429 arrived.
NoCallRec == [st |-> "unused", gen |-> 0, at |-> 0, wakeAt |-> 0, next |-> 0]

\* An invocation of api.getStations: idle, or awaiting the promise of the
\* fetchJson invocation p since its own now.
IdleCaller == [pc |-> "idle", now |-> 0, p |-> 0]

\* What one step of the client did: the caller that called getStations
\* and whether the station cache answered it; the generations for which
\* fetch(url) was called; the promise a fetchJson invocation joined
\* instead; the registry entries deleted (key, the call registered under
\* it, the call that deleted it); the backoff timer set; the promise that
\* settled and the outcomes delivered to the waiting callers; the
\* station cache entry assigned.
NoCev ==
    [kind |-> "none", caller |-> 0, call |-> 0, gen |-> 0, hit |-> FALSE,
     issued |-> {}, joined |-> 0, removed |-> {}, delay |-> 0,
     delivered |-> {}, stored |-> <<>>]

ClientInit ==
    /\ cnow = 0
    /\ inflightRequests = [g \in Gens |-> 0]
    /\ calls = [i \in CallIds |-> NoCallRec]
    /\ callers = [c \in Callers |-> IdleCaller]
    /\ clientStationsCache = <<>>
    /\ cev = NoCev

InitAt(t, envs) ==
    /\ clock = t
    /\ creds \in [id : BOOLEAN, secret : BOOLEAN]
    /\ cachedToken = NoToken
    /\ tokenExpiresAt = 0
    /\ timetableCache = [k \in {} |-> 0]
    /\ delayCache = <<>>
    /\ req = [r \in Reqs |-> Idle]
    /\ ev = NoEv
    /\ lbVer = 1
    /\ tokSeq = 0
    /\ lastLiveAt = NoTime
    /\ lastOkNow = NoTime
    /\ stationsCache = <<>>
    /\ nodeEnv \in envs
    /\ ClientInit

InitWith(envs) == InitAt(0, envs)

\* A production deployment, freshly started.
Init == InitWith({"production"})

\* ------------------------------------------------------ tdx.ts getAccessToken
\* lines 10-20, up to the first await: "cached" (return cachedToken), "anon"
\* (credentials missing, return null) or "exchange" (POST to the token URL).
\* Two variants of the entry test: one keeps a token through the instant it
\* expires, one short-circuits only when both credentials are missing.
GetAccessTokenEntry_Inclusive(now) ==
    IF cachedToken /= NoToken /\ now <= tokenExpiresAt THEN "cached"
    ELSE IF ~creds.id \/ ~creds.secret THEN "anon"
    ELSE "exchange"

GetAccessTokenEntry_BothMissing(now) ==
    IF cachedToken /= NoToken /\ now < tokenExpiresAt THEN "cached"
    ELSE IF ~creds.id /\ ~creds.secret THEN "anon"
    ELSE "exchange"

GetAccessTokenEntry(now) ==
    IF cachedToken /= NoToken /\ now < tokenExpiresAt THEN "cached"
    ELSE IF ~creds.id \/ ~creds.secret THEN "anon"
    ELSE "exchange"

\* line 49
TokenExpiry(now, expires_in) == now + expires_in * 1000 - TOKEN_SAFETY_MARGIN

\* --------------------------------------------------- schedule.ts responses
\* lines 168-225: Cache-Control, filter and transform, 200.
Respond200(r, R, delayMap, live) ==
    [NoResp EXCEPT !.by = r, !.now = R.now, !.endpoint = "schedule", !.query = R.query,
                   !.queryDate = R.queryDate, !.allTrains = R.allTrains,
                   !.delayMap = delayMap, !.live = live,
                   !.cacheControl = ScheduleCacheControl, !.status = 200]

\* lines 170-176 and 226-234: allTrains is null, allTrains.TrainTimetables
\* throws a TypeError after the header has been set, and the catch block
\* answers 500.
TransformError == <<"Cannot read properties of null (reading 'TrainTimetables')">>
RespondTransformThrew(r, R, delayMap, live) ==
    [NoResp EXCEPT !.by = r, !.now = R.now, !.endpoint = "schedule", !.query = R.query,
                   !.queryDate = R.queryDate, !.allTrains = R.allTrains,
                   !.delayMap = delayMap, !.live = live,
                   !.cacheControl = ScheduleCacheControl,
                   !.error = IF nodeEnv = "development" THEN TransformError
                             ELSE GenericScheduleError,
                   !.status = 500]

\* lines 168-234, from the delay map on.
RespondSchedule(r, R, delayMap, live) ==
    IF R.allTrains.isNull THEN RespondTransformThrew(r, R, delayMap, live)
    ELSE Respond200(r, R, delayMap, live)

\* lines 226-234
Respond500(r, R, f) ==
    [NoResp EXCEPT !.by = r, !.now = R.now, !.endpoint = "schedule", !.query = R.query,
                   !.error = ScheduleErrorBody(f), !.status = 500]

\* lines 55-69
Respond400(r, R, message) ==
    [NoResp EXCEPT !.by = r, !.endpoint = "schedule", !.query = R.query,
                   !.error = <<message>>, !.status = 400]

\* stations.ts line 47: 200 with the station array; the handler sets no
\* Cache-Control header.
RespondStations(r, R, data) ==
    [NoResp EXCEPT !.by = r, !.now = R.now, !.endpoint = "stations",
                   !.stations = StationsOf(data), !.status = 200]

\* stations.ts lines 48-52: 500 with the message of the error caught.
RespondStations500(r, R, f) ==
    [NoResp EXCEPT !.by = r, !.now = R.now, !.endpoint = "stations",
                   !.error = ErrorMessage(f), !.status = 500]

\* The body of a 200 response (lines 176-225).
BodyOf(T) ==
    [date |-> T.queryDate, origin |-> T.query.origin.s, destination |-> T.query.dest.s,
     trains |-> TrainsOf(T.allTrains.TrainTimetables, T.query.origin.s, T.query.dest.s, T.delayMap)]

\* The invocation ends with a response.
Answer(r, response, write, got) ==
    /\ req' = [req EXCEPT ![r] = Idle]
    /\ ev' = [by |-> r, got |-> got, sent |-> NoCall, write |-> write, resp |-> response]
    /\ UNCHANGED lastLiveAt

\* tdx.ts lines 27-36: the POST to the token endpoint is sent and the
\* invocation waits for it.
AwaitToken(r, R, pc, write, got) ==
    /\ req' = [req EXCEPT ![r] = [R EXCEPT !.pc = pc, !.tnow = clock]]
    /\ ev' = [by |-> r, got |-> got, sent |-> Call("token", NoToken, NoTime, NoLM),
              write |-> write, resp |-> NoResp]
    /\ UNCHANGED lastLiveAt

\* tdx.ts lines 157-181 for the timetable, from the token on: the GET is
\* sent with the token, or with no Authorization header.
SendTimetable(r, R, token, tokenExp, got) ==
    /\ req' = [req EXCEPT ![r] = [R EXCEPT !.pc = "ttData"]]
    /\ ev' = [by |-> r, got |-> got, sent |-> Call("timetable", token, tokenExp, NoLM),
              write |-> "none", resp |-> NoResp]
    /\ UNCHANGED lastLiveAt

\* tdx.ts lines 92-118 for the live board, from the token on: the GET is
\* sent with the token (or none) and the If-Modified-Since value.
SendLive(r, R, token, tokenExp, write, got) ==
    /\ req' = [req EXCEPT ![r] = [R EXCEPT !.pc = "lbData", !.sentVer = lbVer]]
    /\ ev' = [by |-> r, got |-> got, sent |-> Call("live", token, tokenExp, R.ims),
              write |-> write, resp |-> NoResp]
    /\ lastLiveAt' = clock

\* tdx.ts lines 157-181 for the station list, from the token on.
SendStations(r, R, token, tokenExp, got) ==
    /\ req' = [req EXCEPT ![r] = [R EXCEPT !.pc = "stData"]]
    /\ ev' = [by |-> r, got |-> got, sent |-> Call("stations", token, tokenExp, NoLM),
              write |-> "none", resp |-> NoResp]
    /\ UNCHANGED lastLiveAt

\* schedule.ts lines 157 and 164: delayCache?.data || new Map()
StaleOrEmpty == IF delayCache /= <<>> THEN delayCache[1].data ELSE EmptyMap

\* line 109
DelayFresh(now) == delayCache /= <<>> /\ delayCache[1].expires > now

\* A variant that sends the marker of an unexpired entry only.
IfModifiedSince_FreshOnly ==
    IF delayCache /= <<>> /\ delayCache[1].expires > clock
    THEN delayCache[1].lastModified ELSE NoLM

\* line 123: delayCache?.lastModified || undefined
IfModifiedSince == IF delayCache /= <<>> THEN delayCache[1].lastModified ELSE NoLM

\* schedule.ts lines 106-124 and tdx.ts lines 92-118, run until the handler
\* next waits for the network or responds; write is the cache write the
\* step has made before.
DelayStage(r, R, write, got) ==
    IF DelayFresh(R.now)
    THEN Answer(r, RespondSchedule(r, R, delayCache[1].data, "cached"), write, got)
    ELSE LET Q == [R EXCEPT !.ims = IfModifiedSince]
             entry == GetAccessTokenEntry(clock)
         IN IF entry = "exchange" THEN AwaitToken(r, Q, "lbTok", write, got)
            ELSE IF entry = "cached"
            THEN SendLive(r, Q, cachedToken, tokenExpiresAt, write, got)
            ELSE SendLive(r, Q, NoToken, NoTime, write, got)

\* ---------------------------------------------------------------- actions
\* schedule.ts lines 52-124: a request arrives and the handler runs to its
\* first network wait, or to its response when both caches answer.
Start(r, q) ==
    /\ req[r].pc = "idle"
    /\ LET R0 == [Idle EXCEPT !.query = q]
           queryDate == IF Truthy(q.date) THEN q.date.s ELSE TodayOf(clock)
           isToday == queryDate = TodayOf(clock)
           scheduleUrl == IF isToday THEN <<"Today">> ELSE <<"TrainDate", queryDate>>
           R == [R0 EXCEPT !.now = clock, !.queryDate = queryDate, !.key = scheduleUrl]
           hit == /\ scheduleUrl \in DOMAIN timetableCache
                  /\ timetableCache[scheduleUrl].expires > clock
           entry == GetAccessTokenEntry(clock)
       IN IF ~Truthy(q.origin) \/ ~Truthy(q.dest)
          THEN Answer(r, Respond400(r, R0, "Missing origin or dest parameters"),
                      "none", NoGot)
          ELSE IF ~isValidStationId(q.origin) \/ ~isValidStationId(q.dest)
          THEN Answer(r, Respond400(r, R0, "Invalid station ID format"), "none", NoGot)
          ELSE IF Truthy(q.date) /\ ~isValidDate(q.date)
          THEN Answer(r, Respond400(r, R0, "Invalid date format. Use YYYY-MM-DD"),
                      "none", NoGot)
          ELSE IF hit
          THEN DelayStage(r, [R EXCEPT !.allTrains = timetableCache[scheduleUrl].data],
                          "none", NoGot)
          ELSE IF entry = "exchange" THEN AwaitToken(r, R, "ttTok", "none", NoGot)
          ELSE IF entry = "cached"
          THEN SendTimetable(r, R, cachedToken, tokenExpiresAt, NoGot)
          ELSE SendTimetable(r, R, NoToken, NoTime, NoGot)
    /\ UNCHANGED <<clientVars, nodeEnv, stationsCache, clock, creds, cachedToken, tokenExpiresAt, timetableCache,
                   delayCache, lbVer, tokSeq, lastOkNow>>

\* tdx.ts lines 32-51 then 93-118 / 158-181: the token endpoint answers 200
\* with {access_token, expires_in}; the slot is written and the data call
\* is sent with the new token.
TokenOk(r, expires_in) ==
    /\ req[r].pc \in {"ttTok", "lbTok", "stTok"}
    /\ tokSeq < MaxTok
    /\ LET R == req[r]
           access_token == tokSeq + 1
       IN /\ cachedToken' = access_token
          /\ tokenExpiresAt' = TokenExpiry(R.tnow, expires_in)
          /\ tokSeq' = tokSeq + 1
          /\ IF R.pc = "ttTok"
             THEN SendTimetable(r, R, access_token, TokenExpiry(R.tnow, expires_in),
                                GotToken(expires_in))
             ELSE IF R.pc = "stTok"
             THEN SendStations(r, R, access_token, TokenExpiry(R.tnow, expires_in),
                               GotToken(expires_in))
             ELSE SendLive(r, R, access_token, TokenExpiry(R.tnow, expires_in), "none",
                           GotToken(expires_in))
    /\ UNCHANGED <<clientVars, nodeEnv, stationsCache, clock, creds, timetableCache, delayCache, lbVer, lastOkNow>>

\* A variant that forgets the cached token when an exchange is refused.
TokenRefused_ClearsToken(r) ==
    /\ req[r].pc \in {"ttTok", "lbTok", "stTok"}
    /\ cachedToken' = NoToken
    /\ IF req[r].pc = "ttTok"
       THEN SendTimetable(r, req[r], NoToken, NoTime, Got("tokenRefused"))
       ELSE IF req[r].pc = "stTok"
       THEN SendStations(r, req[r], NoToken, NoTime, Got("tokenRefused"))
       ELSE SendLive(r, req[r], NoToken, NoTime, "none", Got("tokenRefused"))
    /\ UNCHANGED <<clientVars, nodeEnv, stationsCache, clock, creds, tokenExpiresAt, timetableCache,
                   delayCache, lbVer, tokSeq, lastOkNow>>

\* tdx.ts lines 38-44: the token endpoint answers with a non-success
\* status; getAccessToken returns null and the data call is sent without
\* an Authorization header.
TokenRefused(r) ==
    /\ req[r].pc \in {"ttTok", "lbTok", "stTok"}
    /\ IF req[r].pc = "ttTok"
       THEN SendTimetable(r, req[r], NoToken, NoTime, Got("tokenRefused"))
       ELSE IF req[r].pc = "stTok"
       THEN SendStations(r, req[r], NoToken, NoTime, Got("tokenRefused"))
       ELSE SendLive(r, req[r], NoToken, NoTime, "none", Got("tokenRefused"))
    /\ UNCHANGED <<clientVars, nodeEnv, stationsCache, clock, creds, cachedToken, tokenExpiresAt, timetableCache,
                   delayCache, lbVer, tokSeq, lastOkNow>>

\* tdx.ts line 32: fetch(TOKEN_URL) rejects (a network error).  Nothing in
\* getAccessToken catches it: it leaves fetchTDX / fetchTDXWithCache as an
\* exception, caught at schedule.ts line 226 (timetable) or 159 (live board)
\* or at stations.ts line 48.
TokenNetworkError(r) ==
    /\ req[r].pc \in {"ttTok", "lbTok", "stTok"}
    /\ IF req[r].pc = "ttTok"
       THEN Answer(r, Respond500(r, req[r], NetworkError), "none", Got("tokenNetErr"))
       ELSE IF req[r].pc = "stTok"
       THEN Answer(r, RespondStations500(r, req[r], NetworkError), "none",
                   Got("tokenNetErr"))
       ELSE Answer(r, RespondSchedule(r, req[r], StaleOrEmpty, "threw"), "none",
                   Got("tokenNetErr"))
    /\ UNCHANGED <<clientVars, nodeEnv, stationsCache, clock, creds, cachedToken, tokenExpiresAt, timetableCache,
                   delayCache, lbVer, tokSeq, lastOkNow>>

\* schedule.ts lines 81-83: the document the upstream serves for the URL of
\* request r, the one of the upstream's current day for .../Today and the
\* one of the date named for .../TrainDate/<date>.
UpstreamTimetable(r) ==
    TimetableOf(IF req[r].key = <<"Today">> THEN TodayOf(clock) ELSE req[r].queryDate)

\* schedule.ts lines 95-124: the timetable arrives; it is cached and the
\* handler goes on to the delay data.
TimetableOk_StampsArrival(r) ==
    /\ req[r].pc = "ttData"
    /\ timetableCache' = MapSet(timetableCache, req[r].key,
            [data |-> UpstreamTimetable(r),
             expires |-> clock + TIMETABLE_CACHE_TTL])
    /\ DelayStage(r, [req[r] EXCEPT !.allTrains = UpstreamTimetable(r)],
                  "timetable", Got("ttOk"))
    /\ UNCHANGED <<clientVars, nodeEnv, stationsCache, clock, creds, cachedToken, tokenExpiresAt, delayCache, lbVer,
                   tokSeq, lastOkNow>>
TimetableOk(r) ==
    /\ req[r].pc = "ttData"
    /\ timetableCache' = MapSet(timetableCache, req[r].key,
            [data |-> UpstreamTimetable(r),
             expires |-> req[r].now + TIMETABLE_CACHE_TTL])
    /\ DelayStage(r, [req[r] EXCEPT !.allTrains = UpstreamTimetable(r)],
                  "timetable", Got("ttOk"))
    /\ UNCHANGED <<clientVars, nodeEnv, stationsCache, clock, creds, cachedToken, tokenExpiresAt, delayCache, lbVer,
                   tokSeq, lastOkNow>>

\* tdx.ts line 190 and schedule.ts lines 95-124: the timetable call is
\* answered 200 with the JSON body null; it is cached like any other.
TimetableNullBody(r) ==
    /\ req[r].pc = "ttData"
    /\ timetableCache' = MapSet(timetableCache, req[r].key,
            [data |-> NullTimetable, expires |-> req[r].now + TIMETABLE_CACHE_TTL])
    /\ DelayStage(r, [req[r] EXCEPT !.allTrains = NullTimetable], "timetable",
                  Got("ttNull"))
    /\ UNCHANGED <<clientVars, nodeEnv, stationsCache, clock, creds, cachedToken, tokenExpiresAt, delayCache, lbVer,
                   tokSeq, lastOkNow>>

\* A variant that caches an empty timetable when the call fails.
TimetableFail_Poisons(r) ==
    /\ req[r].pc = "ttData"
    /\ timetableCache' = MapSet(timetableCache, req[r].key,
            [data |-> NoTimetable, expires |-> req[r].now + TIMETABLE_CACHE_TTL])
    /\ \E f \in UpstreamFailures :
           Answer(r, Respond500(r, req[r], f), "none", Got("ttFail"))
    /\ UNCHANGED <<clientVars, nodeEnv, stationsCache, clock, creds, cachedToken, tokenExpiresAt,
                   delayCache, lbVer, tokSeq, lastOkNow>>

\* tdx.ts lines 181-188 and schedule.ts lines 226-234: the timetable call
\* fails (network error or non-success status).
TimetableFail(r) ==
    /\ req[r].pc = "ttData"
    /\ \E f \in UpstreamFailures :
           Answer(r, Respond500(r, req[r], f), "none", Got("ttFail"))
    /\ UNCHANGED <<clientVars, nodeEnv, stationsCache, clock, creds, cachedToken, tokenExpiresAt, timetableCache,
                   delayCache, lbVer, tokSeq, lastOkNow>>

\* The upstream's answer to a live board GET sent at version sentVer with
\* If-Modified-Since ims, served from version w: 304 when w is no newer
\* than ims, the payload of w otherwise.
Serves(R, w) == w \in R.sentVer..lbVer
NotNewer(R, w) == R.ims /= NoLM /\ w <= R.ims

\* A variant that sets the new delays into the map already stored.
NewEntry_Merges(now, liveData, lastModified) ==
    << [data |-> DelayMapFrom(liveData, StaleOrEmpty), lastModified |-> lastModified,
        expires |-> now + DELAY_CACHE_MIN_TTL] >>

\* schedule.ts lines 146-150: delayCache = {data, lastModified, expires}
NewEntry(now, liveData, lastModified) ==
    << [data |-> BuildDelayMap(liveData), lastModified |-> lastModified,
        expires |-> now + DELAY_CACHE_MIN_TTL] >>

\* Two variants of the 304 branch: one forgets to extend the entry, one
\* extends it from the time the answer arrives.
ExtendedEntry_NoExtend(now) == delayCache

ExtendedEntry_FromClock(now) ==
    << [delayCache[1] EXCEPT !.expires = clock + DELAY_CACHE_MIN_TTL] >>

\* schedule.ts line 129: delayCache.expires = now + DELAY_CACHE_MIN_TTL
ExtendedEntry(now) ==
    << [delayCache[1] EXCEPT !.expires = now + DELAY_CACHE_MIN_TTL] >>

\* tdx.ts lines 121-128 and schedule.ts lines 126-132, 155-158: 304.
LiveNotModified(r) ==
    /\ req[r].pc = "lbData"
    /\ \E w \in 1..lbVer : Serves(req[r], w) /\ NotNewer(req[r], w)
    /\ IF delayCache /= <<>>
       THEN /\ delayCache' = ExtendedEntry(req[r].now)
            /\ lastOkNow' = req[r].now
            /\ Answer(r, RespondSchedule(r, req[r], delayCache[1].data, "notModified"), "field",
                      NotModifiedResult(req[r].ims))
       ELSE /\ UNCHANGED <<delayCache, lastOkNow>>
            /\ Answer(r, RespondSchedule(r, req[r], StaleOrEmpty, "nodata"), "none",
                      NotModifiedResult(req[r].ims))
    /\ UNCHANGED <<clientVars, nodeEnv, stationsCache, clock, creds, cachedToken, tokenExpiresAt, timetableCache,
                   lbVer, tokSeq>>

\* tdx.ts lines 137-144 and schedule.ts lines 133-154: 200 with a payload
\* and a Last-Modified header, or none (hasHeader false).
LiveNewData(r, w, hasHeader) ==
    /\ req[r].pc = "lbData"
    /\ Serves(req[r], w) /\ ~NotNewer(req[r], w)
    /\ LET lastModified == IF hasHeader THEN w ELSE NoLM
           entry == NewEntry(req[r].now, LiveBoard(w), lastModified)
       IN /\ delayCache' = entry
          /\ lastOkNow' = req[r].now
          /\ Answer(r, RespondSchedule(r, req[r], entry[1].data, "newData"), "replace",
                    GotLive("data", LiveBoard(w), lastModified, req[r].ims))
    /\ UNCHANGED <<clientVars, nodeEnv, stationsCache, clock, creds, cachedToken, tokenExpiresAt, timetableCache,
                   lbVer, tokSeq>>

\* tdx.ts lines 138-144 and schedule.ts lines 155-158: 200 whose JSON body
\* is null; neither branch of the handler applies.
LiveNullBody(r) ==
    /\ req[r].pc = "lbData"
    /\ \E w \in 1..lbVer : Serves(req[r], w) /\ ~NotNewer(req[r], w)
    /\ Answer(r, RespondSchedule(r, req[r], StaleOrEmpty, "nodata"), "none",
              GotLive("nullBody", <<>>, NoLM, req[r].ims))
    /\ UNCHANGED <<clientVars, nodeEnv, stationsCache, clock, creds, cachedToken, tokenExpiresAt, timetableCache,
                   delayCache, lbVer, tokSeq, lastOkNow>>

\* A variant of the failure branch that lets the failure reach the outer
\* catch when there is no entry to fall back to.
LiveFail_ThrowsWhenCold(r) ==
    /\ req[r].pc = "lbData"
    /\ IF delayCache /= <<>>
       THEN Answer(r, RespondSchedule(r, req[r], StaleOrEmpty, "failed"), "none",
                   GotLive("liveFail", <<>>, NoLM, req[r].ims))
       ELSE Answer(r, Respond500(r, req[r], NetworkError), "none",
                   GotLive("liveFail", <<>>, NoLM, req[r].ims))
    /\ UNCHANGED <<clientVars, nodeEnv, stationsCache, clock, creds, cachedToken, tokenExpiresAt,
                   timetableCache, delayCache, lbVer, tokSeq, lastOkNow>>

\* A variant of the failure branch that starts a fresh interval.
LiveFail_ExtendsTTL(r) ==
    /\ req[r].pc = "lbData"
    /\ delayCache' = IF delayCache /= <<>> THEN ExtendedEntry(req[r].now) ELSE delayCache
    /\ Answer(r, RespondSchedule(r, req[r], StaleOrEmpty, "failed"), "none",
              GotLive("liveFail", <<>>, NoLM, req[r].ims))
    /\ UNCHANGED <<clientVars, nodeEnv, stationsCache, clock, creds, cachedToken, tokenExpiresAt, timetableCache,
                   lbVer, tokSeq, lastOkNow>>

\* tdx.ts lines 118, 130-135 and schedule.ts lines 159-165: the live board
\* call fails (network error or non-success status).
LiveFail(r) ==
    /\ req[r].pc = "lbData"
    /\ \E f \in UpstreamFailures :
           Answer(r, RespondSchedule(r, req[r], StaleOrEmpty, "failed"), "none",
                  ThrownResult(f, req[r].ims))
    /\ UNCHANGED <<clientVars, nodeEnv, stationsCache, clock, creds, cachedToken, tokenExpiresAt, timetableCache,
                   delayCache, lbVer, tokSeq, lastOkNow>>

\* stations.ts lines 16-35: a request for the station list arrives; the
\* handler answers from its cache or runs to its first network wait.
StartStations(r) ==
    /\ req[r].pc = "idle"
    /\ LET R == [Idle EXCEPT !.now = clock]
           entry == GetAccessTokenEntry(clock)
       IN IF stationsCache /= <<>> /\ stationsCache[1].expires > clock
          THEN Answer(r, RespondStations(r, R, stationsCache[1].data), "none", NoGot)
          ELSE IF entry = "exchange" THEN AwaitToken(r, R, "stTok", "none", NoGot)
          ELSE IF entry = "cached"
          THEN SendStations(r, R, cachedToken, tokenExpiresAt, NoGot)
          ELSE SendStations(r, R, NoToken, NoTime, NoGot)
    /\ UNCHANGED <<clientVars, nodeEnv, stationsCache, clock, creds, cachedToken, tokenExpiresAt,
                   timetableCache, delayCache, lbVer, tokSeq, lastOkNow>>

\* stations.ts lines 28-47: the station list arrives; it is cached and
\* answered.
StationsOk(r, data) ==
    /\ req[r].pc = "stData"
    /\ stationsCache' = << [data |-> data, expires |-> req[r].now + CACHE_TTL] >>
    /\ Answer(r, RespondStations(r, req[r], data), "stations", Got("stOk"))
    /\ UNCHANGED <<clientVars, nodeEnv, clock, creds, cachedToken, tokenExpiresAt, timetableCache,
                   delayCache, lbVer, tokSeq, lastOkNow>>

\* tdx.ts lines 181-188 and stations.ts lines 48-52: the station list call
\* fails (network error or non-success status).
StationsFail(r) ==
    /\ req[r].pc = "stData"
    /\ \E f \in UpstreamFailures :
           Answer(r, RespondStations500(r, req[r], f), "none", Got("stFail"))
    /\ UNCHANGED <<clientVars, nodeEnv, stationsCache, clock, creds, cachedToken, tokenExpiresAt,
                   timetableCache, delayCache, lbVer, tokSeq, lastOkNow>>

\* Time passes.
Advance ==
    /\ clock + Tick <= MaxTicks * Tick
    /\ clock' = clock + Tick
    /\ ev' = NoEv
    /\ UNCHANGED <<clientVars, nodeEnv, stationsCache, creds, cachedToken, tokenExpiresAt,
                   timetableCache, delayCache, req, lbVer, tokSeq, lastLiveAt, lastOkNow>>

\* Almost an hour passes at once, and then time goes on in steps of Tick
\* until MaxLate steps after the hour.
AdvanceLong ==
    /\ clock <= MaxTicks * Tick
    /\ clock + CACHE_TTL - Tick <= CACHE_TTL + MaxLate * Tick
    /\ clock' = clock + CACHE_TTL - Tick
    /\ ev' = NoEv
    /\ UNCHANGED <<clientVars, nodeEnv, stationsCache, creds, cachedToken, tokenExpiresAt,
                   timetableCache, delayCache, req, lbVer, tokSeq, lastLiveAt, lastOkNow>>

AdvanceLate ==
    /\ clock >= CACHE_TTL - Tick
    /\ clock + Tick <= CACHE_TTL + MaxLate * Tick
    /\ clock' = clock + Tick
    /\ ev' = NoEv
    /\ UNCHANGED <<clientVars, nodeEnv, stationsCache, creds, cachedToken, tokenExpiresAt,
                   timetableCache, delayCache, req, lbVer, tokSeq, lastLiveAt, lastOkNow>>

\* Time passes from before midnight until MaxLate steps after it.
AdvanceNight ==
    /\ clock + Tick <= StartOfDay2 + MaxLate * Tick
    /\ clock' = clock + Tick
    /\ ev' = NoEv
    /\ UNCHANGED <<clientVars, nodeEnv, stationsCache, creds, cachedToken, tokenExpiresAt,
                   timetableCache, delayCache, req, lbVer, tokSeq, lastLiveAt, lastOkNow>>

\* The upstream publishes a new live board.
Publish ==
    /\ lbVer < MaxVer
    /\ lbVer' = lbVer + 1
    /\ ev' = NoEv
    /\ UNCHANGED <<clientVars, nodeEnv, stationsCache, clock, creds, cachedToken, tokenExpiresAt, timetableCache,
                   delayCache, req, tokSeq, lastLiveAt, lastOkNow>>

\* ---------------------------------------------------------- client actions
\* Map.delete(key): the registry without the entry of generation g, and
\* what call i deleted by it.
Delete(reg, g) == [reg EXCEPT ![g] = 0]
Deleted(reg, g, i) ==
    IF reg[g] = 0 THEN {} ELSE {[key |-> g, owner |-> reg[g], by |-> i]}

NewCall(cs) ==
    CHOOSE i \in CallIds :
        /\ cs[i].st = "unused"
        /\ \A j \in CallIds : cs[j].st = "unused" => i <= j

\* section 2.3, fetchJson(url, retryCount) up to its return: the pending
\* promise registered under the key is returned, or fetch(url) is called
\* and the new promise is registered.
FetchJson_NoLookup(reg, cs, retryCount) ==
    LET i == NewCall(cs)
    IN [reg |-> [reg EXCEPT ![retryCount] = i],
        calls |-> [cs EXCEPT ![i] = [NoCallRec EXCEPT !.st = "fetching",
                                                      !.gen = retryCount]],
        p |-> i, issued |-> {retryCount}, joined |-> 0]
FetchJson(reg, cs, retryCount) ==
    IF reg[retryCount] # 0
    THEN [reg |-> reg, calls |-> cs, p |-> reg[retryCount], issued |-> {},
          joined |-> reg[retryCount]]
    ELSE LET i == NewCall(cs)
         IN [reg |-> [reg EXCEPT ![retryCount] = i],
             calls |-> [cs EXCEPT ![i] = [NoCallRec EXCEPT !.st = "fetching",
                                                           !.gen = retryCount]],
             p |-> i, issued |-> {retryCount}, joined |-> 0]

\* api.getStations is called while the bound allows.
MayCall ==
    \/ cnow <= MaxCNow
    \/ cnow >= STATIONS_CACHE_TTL - CTick /\ cnow <= STATIONS_CACHE_TTL + MaxCNow

\* section 2.2, api.getStations up to its return or its await: the station
\* cache answers while stationsCache.expires > now, else fetchJson is
\* called with retryCount = 0 and its promise awaited.
GetStations(c) ==
    /\ callers[c].pc = "idle"
    /\ MayCall
    /\ IF clientStationsCache # <<>> /\ clientStationsCache[1].expires > cnow
       THEN /\ cev' = [NoCev EXCEPT !.kind = "getStations", !.caller = c, !.hit = TRUE,
                                    !.delivered = {[caller |-> c, ok |-> TRUE,
                                                    val |-> clientStationsCache[1].data]}]
            /\ UNCHANGED <<inflightRequests, calls, callers>>
       ELSE /\ inflightRequests' = FetchJson(inflightRequests, calls, 0).reg
            /\ calls' = FetchJson(inflightRequests, calls, 0).calls
            /\ callers' = [callers EXCEPT ![c] =
                              [pc |-> "waiting", now |-> cnow,
                               p |-> FetchJson(inflightRequests, calls, 0).p]]
            /\ cev' = [NoCev EXCEPT !.kind = "getStations", !.caller = c,
                                    !.issued = FetchJson(inflightRequests, calls, 0).issued,
                                    !.joined = FetchJson(inflightRequests, calls, 0).joined]
    /\ UNCHANGED <<cnow, clientStationsCache, serverVars>>

\* The promise of call j settles with the promise at the end of the chain
\* of returned promises.
RECURSIVE Root(_, _)
Root(cs, j) == IF cs[j].st = "chained" THEN Root(cs, cs[j].next) ELSE j

Chain(i) == {j \in CallIds : calls[j].st # "unused" /\ Root(calls, j) = i}

Waiting(i) == {c \in Callers : callers[c].pc = "waiting" /\ callers[c].p \in Chain(i)}

MaxOf(S) == CHOOSE x \in S : \A y \in S : y <= x

\* The promise of call i settles: section 2.3, the finally block deletes
\* the key (cleanup), and every promise chained to it settles with it;
\* section 2.2, each waiting caller resumes, in the order the callers
\* arrived, and on success assigns stationsCache with its own now.
SettleWith(i, ok, val, cleanup) ==
    LET W == Waiting(i)
        g == calls[i].gen
        entry == [data |-> val,
                  expires |-> MaxOf({callers[c].now : c \in W}) + STATIONS_CACHE_TTL]
    IN /\ inflightRequests' = IF cleanup THEN Delete(inflightRequests, g)
                              ELSE inflightRequests
       /\ calls' = [j \in CallIds |-> IF j \in Chain(i) THEN NoCallRec ELSE calls[j]]
       /\ callers' = [c \in Callers |-> IF c \in W THEN IdleCaller ELSE callers[c]]
       /\ clientStationsCache' = IF ok /\ W # {} THEN <<entry>> ELSE clientStationsCache
       /\ cev' = [NoCev EXCEPT !.kind = IF ok THEN "resolved" ELSE "rejected",
                               !.call = i, !.gen = g,
                               !.removed = IF cleanup THEN Deleted(inflightRequests, g, i)
                                           ELSE {},
                               !.delivered = {[caller |-> c, ok |-> ok, val |-> val] : c \in W},
                               !.stored = IF ok /\ W # {} THEN <<entry>> ELSE <<>>]
       /\ UNCHANGED <<cnow, serverVars>>

Settle(i, ok, val) == SettleWith(i, ok, val, TRUE)

\* /api/stations answers 200 with the station list val.
NetOk(i, val) ==
    /\ calls[i].st = "fetching"
    /\ Settle(i, TRUE, val)

\* fetch(url) rejects: the error passes through the finally block.
NetFail_NoCleanup(i) ==
    /\ calls[i].st = "fetching"
    /\ SettleWith(i, FALSE, 0, FALSE)
NetFail(i) ==
    /\ calls[i].st = "fetching"
    /\ Settle(i, FALSE, 0)

\* section 2.4: /api/stations answers 429 and retryCount < 3; the backoff
\* timer is set.
Net429(i) ==
    /\ calls[i].st = "fetching"
    /\ calls[i].gen < MAX_RETRIES
    /\ calls' = [calls EXCEPT ![i].st = "sleeping", ![i].at = cnow,
                              ![i].wakeAt = cnow + BackoffDelay(calls[i].gen)]
    /\ cev' = [NoCev EXCEPT !.kind = "backoff", !.call = i, !.gen = calls[i].gen,
                            !.delay = BackoffDelay(calls[i].gen)]
    /\ UNCHANGED <<cnow, inflightRequests, callers, clientStationsCache, serverVars>>

\* /api/stations answers 429 to the call of the last generation: the
\* retry ceiling is exceeded and the failure is surfaced to the callers.
Net429Exhausted(i) ==
    /\ calls[i].st = "fetching"
    /\ calls[i].gen = MAX_RETRIES
    /\ Settle(i, FALSE, 429)

\* section 2.4: the backoff timer fires; the call deletes its key, calls
\* fetchJson(url, retryCount + 1) and returns its promise, and the
\* finally block deletes the key once more.
Wake(i) ==
    /\ calls[i].st = "sleeping"
    /\ cnow >= calls[i].wakeAt
    /\ LET g == calls[i].gen
           F == FetchJson(Delete(inflightRequests, g), calls, g + 1)
       IN /\ inflightRequests' = Delete(F.reg, g)
          /\ calls' = [F.calls EXCEPT ![i].st = "chained", ![i].next = F.p,
                                      ![i].at = 0, ![i].wakeAt = 0]
          /\ cev' = [NoCev EXCEPT !.kind = "retry", !.call = i, !.gen = g + 1,
                                  !.issued = F.issued, !.joined = F.joined,
                                  !.removed = Deleted(inflightRequests, g, i)
                                              \cup Deleted(F.reg, g, i),
                                  !.delay = cnow - calls[i].at]
    /\ UNCHANGED <<cnow, callers, clientStationsCache, serverVars>>

\* The browser's time passes; a timer that is due fires first.
ClientTick ==
    /\ \A i \in CallIds : calls[i].st = "sleeping" => calls[i].wakeAt > cnow
    /\ \/ cnow < MaxCNow
       \/ \E i \in CallIds : calls[i].st = "sleeping"
       \/ cnow >= STATIONS_CACHE_TTL - CTick /\ cnow < STATIONS_CACHE_TTL + MaxCNow
    /\ cnow' = cnow + CTick
    /\ cev' = NoCev
    /\ UNCHANGED <<inflightRequests, calls, callers, clientStationsCache, serverVars>>

\* Almost an hour passes at once in a tab with nothing pending.
ClientLong ==
    /\ cnow <= MaxCNow
    /\ \A i \in CallIds : calls[i].st = "unused"
    /\ cnow' = cnow + STATIONS_CACHE_TTL - CTick
    /\ cev' = NoCev
    /\ UNCHANGED <<inflightRequests, calls, callers, clientStationsCache, serverVars>>

\* The answers of the token endpoint and of the data endpoints.
StepToken(r) ==
    \/ \E e \in Lifetimes : TokenOk(r, e)
    \/ TokenRefused(r)
    \/ TokenNetworkError(r)

StepData(r) ==
    \/ TimetableOk(r)
    \/ TimetableFail(r)
    \/ LiveNotModified(r)
    \/ \E w \in 1..MaxVer : \E h \in BOOLEAN : LiveNewData(r, w, h)
    \/ LiveNullBody(r)
    \/ LiveFail(r)

\* One server instance, requests overlapping freely.
Next ==
    \/ \E r \in Reqs : \E q \in Queries : Start(r, q)
    \/ \E r \in Reqs : StepToken(r)
    \/ \E r \in Reqs : StepData(r)
    \/ Advance
    \/ Publish

Spec == Init /\ [][Next]_vars

\* The anonymous tier: an instance deployed with a credential missing,
\* requests overlapping freely.  No call to the token endpoint is ever
\* pending, so it never answers.
InitAnon == Init /\ (~creds.id \/ ~creds.secret)

NextAnon ==
    \/ \E r \in Reqs : \E q \in Queries : Start(r, q)
    \/ \E r \in Reqs : StepData(r)
    \/ Advance
    \/ Publish

SpecAnon == InitAnon /\ [][NextAnon]_vars

\* One request at a time: a request is admitted only when no other
\* invocation is running.
NoneRunning == \A r \in Reqs : req[r].pc = "idle"

StartAlone(r, q) == NoneRunning /\ Start(r, q)

NextSeq ==
    \/ \E r \in Reqs : \E q \in Queries : StartAlone(r, q)
    \/ \E r \in Reqs : StepToken(r)
    \/ \E r \in Reqs : StepData(r)
    \/ Advance
    \/ Publish

SpecSeq == Init /\ [][NextSeq]_vars

\* Both endpoints of one instance of the anonymous tier over more than an
\* hour, one request at a time, in production or development mode.
InitApi == InitWith({"production", "development"}) /\ ~creds.id /\ ~creds.secret

StepStations(r) ==
    \/ \E data \in StationPayloads : StationsOk(r, data)
    \/ StationsFail(r)

StartStationsAlone(r) == NoneRunning /\ StartStations(r)

NextApi ==
    \/ \E q \in ApiQueries : StartAlone(1, q)
    \/ StartStationsAlone(1)
    \/ StepData(1)
    \/ StepStations(1)
    \/ Advance
    \/ AdvanceLong
    \/ AdvanceLate
    \/ Publish

SpecApi == InitApi /\ [][NextApi]_vars

\* One browser tab during its first seconds: components calling
\* api.getStations, /api/stations answering each call with a station list,
\* a network error or 429.
InitClient == Init /\ ~creds.id /\ ~creds.secret

NetAnswer(i) ==
    \/ \E val \in StationVals : NetOk(i, val)
    \/ NetFail(i)
    \/ Net429(i)
    \/ Net429Exhausted(i)

NextClient ==
    \/ \E c \in Callers : GetStations(c)
    \/ \E i \in CallIds : NetAnswer(i)
    \/ \E i \in CallIds : Wake(i)
    \/ ClientTick

\* Every fetch(url) is answered, every timer fires, time passes.
FairClient ==
    /\ \A i \in CallIds : WF_vars(NetAnswer(i)) /\ WF_vars(Wake(i))
    /\ WF_vars(ClientTick)

SpecClient == InitClient /\ [][NextClient]_vars /\ FairClient

\* The credentialed tier: an instance deployed with both credentials,
\* requests for one route overlapping freely, each token exchange answered
\* with a token, refused, or lost, each data call answered with data or 304.
InitCred == Init /\ creds.id /\ creds.secret

NextCred ==
    \/ \E r \in Reqs : Start(r, GoodQuery)
    \/ \E r \in Reqs : StepToken(r)
    \/ \E r \in Reqs : TimetableOk(r)
    \/ \E r \in Reqs : LiveNotModified(r)
    \/ \E r \in Reqs : \E w \in 1..MaxVer : LiveNewData(r, w, TRUE)
    \/ Advance
    \/ Publish

SpecCred == InitCred /\ [][NextCred]_vars

\* The schedule endpoint of one production instance of the anonymous tier
\* from one clock step before midnight on, one request at a time, the
\* timetable resource answering with a document or with null.
InitDay == InitAt(StartOfDay2 - Tick, {"production"}) /\ ~creds.id /\ ~creds.secret

NextDay ==
    \/ \E q \in DayQueries : StartAlone(1, q)
    \/ StepData(1)
    \/ TimetableNullBody(1)
    \/ AdvanceNight
    \/ Publish

SpecDay == InitDay /\ [][NextDay]_vars

\* The three TTL caches, each tier on its own: one server instance of the
\* anonymous tier with an untouched browser tab, or one browser tab over
\* more than an hour with an untouched server instance.
ServerFresh ==
    /\ clock = 0
    /\ ev = NoEv
    /\ NoneRunning
    /\ lbVer = 1
    /\ DOMAIN timetableCache = {}
    /\ delayCache = <<>>
    /\ stationsCache = <<>>

ClientFresh ==
    /\ cnow = 0
    /\ cev = NoCev
    /\ \A c \in Callers : callers[c] = IdleCaller
    /\ \A i \in CallIds : calls[i] = NoCallRec
    /\ clientStationsCache = <<>>

NextTiers ==
    \/ ClientFresh /\ NextApi
    \/ ServerFresh /\ NextClient
    \/ ServerFresh /\ ClientLong

SpecTiers == InitApi /\ [][NextTiers]_vars

TypeOK ==
    /\ clock \in 0..(StartOfDay2 + MaxLate * Tick)
    /\ \A r \in Reqs : req[r].pc \in {"idle", "ttTok", "ttData", "lbTok", "lbData", "stTok", "stData"}
    /\ Len(delayCache) <= 1

\* ------------------------------------------------------------------ claims
\* C1, as stated: over any sequence of schedule requests, at most one live
\* board call is issued per DELAY_CACHE_MIN_TTL window, i.e. a live board
\* call is never sent less than DELAY_CACHE_MIN_TTL after the previous one.
C1_AtMostOneCallPerWindow ==
    [][(ev'.sent.to = "live" /\ lastLiveAt /= NoTime)
         => clock' - lastLiveAt >= DELAY_CACHE_MIN_TTL]_vars

\* C1, amended: when requests do not overlap, once a live board call has
\* succeeded (new data or 304) for a request made at time t, no request made
\* before t + DELAY_CACHE_MIN_TTL sends a live board call, and every such
\* request that is answered 200 is answered from the cached map.
C1_OneCallPerWindowInSequence ==
    lastOkNow /= NoTime =>
        /\ ev.sent.to = "live" => req[ev.by].now >= lastOkNow + DELAY_CACHE_MIN_TTL
        /\ (ev.resp.status = 200 /\ ev.resp.now < lastOkNow + DELAY_CACHE_MIN_TTL)
             => \/ ev.resp.live = "cached"
                \/ ev.resp.now = lastOkNow /\ ev.resp.live \in {"newData", "notModified"}

\* A request made strictly inside the window of an earlier successful call
\* is answered from the cache.
C1_Witness ==
    /\ lastOkNow /= NoTime
    /\ ev.resp.live = "cached"
    /\ ev.resp.now > lastOkNow
    /\ ev.resp.now < lastOkNow + DELAY_CACHE_MIN_TTL

\* C2: when an entry exists and the revalidation call fails, the request is
\* answered 200 from the stored map, the entry (map, lastModified, expires)
\* is left as it was and is still expired for the failing request, hence
\* for every later one; and a request is answered from the cache without a
\* call only while the entry is fresh for it, so the next request calls
\* upstream again.
C2_StaleServedAndRetried ==
    /\ [][(ev'.resp.live \in {"failed", "threw"} /\ delayCache /= <<>>)
            => /\ ev'.resp.status = 200
               /\ ev'.resp.delayMap = delayCache[1].data
               /\ delayCache' = delayCache
               /\ delayCache'[1].expires <= ev'.resp.now]_vars
    /\ [](ev.resp.live = "cached"
            => delayCache /= <<>> /\ delayCache[1].expires > ev.resp.now)

\* A failed revalidation of an existing entry has just been answered.
C2_Witness ==
    /\ ev.got.kind = "liveFail"
    /\ ev.got.ims /= NoLM
    /\ delayCache /= <<>>
    /\ ev.resp.status = 200

\* C3: a revalidation answered 304 leaves the stored map and lastModified
\* as they were, answers from that map, and sets expires to the request's
\* now + DELAY_CACHE_MIN_TTL.
C3_NotModifiedKeepsMap ==
    [][(ev'.got.kind = "notModified" /\ delayCache /= <<>>)
         => /\ delayCache'[1].data = delayCache[1].data
            /\ delayCache'[1].lastModified = delayCache[1].lastModified
            /\ delayCache'[1].expires = ev'.resp.now + DELAY_CACHE_MIN_TTL
            /\ ev'.resp.delayMap = delayCache[1].data]_vars

\* A 304 for a request made at time DELAY_CACHE_MIN_TTL: the entry it
\* revalidated was created no earlier than time 0, so the request was made
\* exactly when the entry expired.
C3_Witness ==
    /\ ev.got.kind = "notModified"
    /\ ev.resp.now = DELAY_CACHE_MIN_TTL
    /\ delayCache /= <<>>
    /\ delayCache[1].expires = 2 * DELAY_CACHE_MIN_TTL

\* C4: under any interleaving, every update of the delay cache entry leaves
\* expires greater than or equal to the value it had.
C4_ExpiresNeverDecreases ==
    [][(delayCache /= <<>> /\ delayCache' /= <<>>)
         => delayCache'[1].expires >= delayCache[1].expires]_vars

\* C5: every change of the delay cache entry is the assignment of a whole
\* new entry; no step assigns one field of the entry in place.
C5_WholeEntryReplacement ==
    [][delayCache' /= delayCache => ev'.write = "replace"]_vars

\* C6: when the live board call returns a payload, the stored map holds
\* exactly the train numbers of that payload, each with the delay of its
\* last record (0 when the record has none), lastModified is the
\* response's Last-Modified and expires is the request's now +
\* DELAY_CACHE_MIN_TTL.
C6_NewDataReplacesWholesale ==
    ev.got.kind = "data" =>
        LET payload == ev.got.payload
            nos == {payload[i].TrainNo : i \in 1..Len(payload)}
            last(no) == CHOOSE i \in 1..Len(payload) :
                            /\ payload[i].TrainNo = no
                            /\ \A j \in (i + 1)..Len(payload) : payload[j].TrainNo /= no
        IN /\ delayCache /= <<>>
           /\ DOMAIN delayCache[1].data = nos
           /\ \A no \in nos :
                  delayCache[1].data[no] =
                      IF payload[last(no)].hasDelay THEN payload[last(no)].DelayTime ELSE 0
           /\ delayCache[1].lastModified = ev.got.lastModified
           /\ delayCache[1].expires = ev.resp.now + DELAY_CACHE_MIN_TTL

\* A revalidation of version 1 (which lists trains 102 and 201) returned
\* version 2, which lists neither.
C6_Witness ==
    /\ ev.got.kind = "data"
    /\ ev.got.ims = 1
    /\ ev.got.payload = LiveBoard(2)
    /\ "102" \notin DOMAIN delayCache[1].data

\* C7: no data call carries an access token at or after the expiry computed
\* for that token.
C7_NoExpiredTokenSent ==
    (ev.sent.to \in {"timetable", "live"} /\ ev.sent.token /= NoToken)
        => clock < ev.sent.tokenExp

\* C8: once a token is stored, a getAccessToken call made before its expiry
\* sends the data call with that token and leaves the slot alone, a call
\* made at or after its expiry starts an exchange; a successful exchange
\* stores expiry = (time the exchange started) + expires_in * 1000 - 60000.
C8_TokenReusedUntilExpiry ==
    /\ [][/\ (/\ ev'.sent.to /= "none"
              /\ ev'.got.kind \notin {"tokenOk", "tokenRefused"}
              /\ cachedToken /= NoToken)
             => IF clock < tokenExpiresAt
                THEN /\ ev'.sent.to \in {"timetable", "live"}
                     /\ ev'.sent.token = cachedToken
                     /\ cachedToken' = cachedToken
                     /\ tokenExpiresAt' = tokenExpiresAt
                ELSE ev'.sent.to = "token"
          /\ ev'.got.kind = "tokenOk"
             => /\ cachedToken' /= NoToken
                /\ ev'.sent.token = cachedToken'
                /\ tokenExpiresAt' =
                       req[ev'.by].tnow + ev'.got.expires_in * 1000 - 60000]_vars
    /\ [](ev.sent.to = "token" => req[ev.by].tnow = clock)

\* A stored token is reused for a later call.
C8_Witness ==
    /\ ev.sent.to = "live"
    /\ ev.got.kind = "ttOk"
    /\ ev.sent.token /= NoToken
    /\ ev.sent.token = cachedToken

\* C9: when the credential exchange fails, by network error or non-success
\* status, the data call is still sent, without a token, and the request
\* is not answered 500.
C9_CredentialFailureFallsBack ==
    ev.got.kind \in {"tokenRefused", "tokenNetErr"}
        => /\ ev.sent.to \in {"timetable", "live"}
           /\ ev.sent.token = NoToken
           /\ ev.resp.status /= 500

\* C10: with a credential missing, no call to the token endpoint is sent or
\* pending, no token is stored and every data call goes without a token.
C10_NoExchangeWithoutCredentials ==
    (~creds.id \/ ~creds.secret)
        => /\ ev.sent.to /= "token"
           /\ ev.sent.token = NoToken
           /\ cachedToken = NoToken
           /\ \A r \in Reqs : req[r].pc \notin {"ttTok", "lbTok"}

\* With only the secret missing, a live board call goes out anonymously.
C10_Witness ==
    /\ creds.id
    /\ ~creds.secret
    /\ ev.sent.to = "live"
    /\ ev.sent.token = NoToken

\* C16: when the fetch for a timetable or station list miss fails, the
\* request is answered 500 and the timetable cache and the station cache
\* are left as they were.
C16_FailedFetchLeavesCache ==
    [][ev'.got.kind \in {"ttFail", "stFail"}
         => /\ ev'.resp.status = 500
            /\ ev'.write = "none"
            /\ timetableCache' = timetableCache
            /\ stationsCache' = stationsCache]_vars

\* A timetable fetch has failed while an expired entry was stored, and the
\* entry is still there.
C16_Witness ==
    /\ ev.got.kind = "ttFail"
    /\ ev.resp.status = 500
    /\ DOMAIN timetableCache /= {}
    /\ \A k \in DOMAIN timetableCache :
           timetableCache[k].data.TrainTimetables = TimetableDoc
           /\ timetableCache[k].expires <= clock

\* C17, as stated: a live board failure while the delay cache is still cold
\* has no stale entry to fall back to and is answered 500.
C17_ColdLiveFailureIs500 ==
    (ev.got.kind = "liveFail" /\ delayCache = <<>>) => ev.resp.status = 500

\* C17, amended: a live board failure is always absorbed, the request being
\* answered 200 from the stale map when an entry exists and from an empty
\* map when the delay cache is cold; a timetable or station list failure
\* is answered 500.
C17_LiveFailureAbsorbed ==
    /\ ev.got.kind = "liveFail"
         => /\ ev.resp.status = 200
            /\ ev.resp.delayMap =
                   IF delayCache = <<>> THEN EmptyMap ELSE delayCache[1].data
    /\ ev.got.kind \in {"ttFail", "stFail"} => ev.resp.status = 500

\* The live board call of a cold instance failed and the request was
\* answered 200 with no delays.
C17_Witness ==
    /\ ev.got.kind = "liveFail"
    /\ delayCache = <<>>
    /\ ev.resp.status = 200
    /\ DOMAIN ev.resp.delayMap = {}

\* C18: a schedule request is answered 400 with no call sent and the token
\* slot and every cache unchanged; and only requests whose origin and dest
\* are strings of 1 to 10 letters, digits or dashes and whose date is
\* absent, empty or of the form dddd-dd-dd get past the validation.
C18_MalformedRejectedUntouched ==
    /\ [][ev'.resp.status = 400
            => /\ ev'.sent.to = "none"
               /\ ev'.write = "none"
               /\ UNCHANGED <<cachedToken, tokenExpiresAt, timetableCache,
                              delayCache, stationsCache>>]_vars
    /\ [](LET IdOk(p) ==
                  /\ p.kind = "string"
                  /\ Len(p.s) \in 1..10
                  /\ \A i \in 1..Len(p.s) : p.s[i] \in Digits \cup Letters \cup {"-"}
              DateOk(p) ==
                  \/ p.kind = "absent"
                  \/ p.kind = "string" /\ Len(p.s) = 0
                  \/ /\ p.kind = "string"
                     /\ Len(p.s) = 10
                     /\ \A i \in 1..10 :
                            IF i \in {5, 8} THEN p.s[i] = "-" ELSE p.s[i] \in Digits
              WellFormed(q) == IdOk(q.origin) /\ IdOk(q.dest) /\ DateOk(q.date)
          IN /\ \A r \in Reqs :
                    req[r].pc \in {"ttTok", "ttData", "lbTok", "lbData"}
                        => WellFormed(req[r].query)
             /\ ev.resp.endpoint = "schedule"
                    => (ev.resp.status = 400 <=> ~WellFormed(ev.resp.query)))

\* A request with an eleven character dest was answered 400 on an instance
\* whose caches were populated.
C18_Witness ==
    /\ ev.resp.status = 400
    /\ ev.resp.query.dest = Str(St11)
    /\ DOMAIN timetableCache /= {}
    /\ delayCache /= <<>>

\* C19: in production every 500 carries a message that does not depend on
\* the upstream's status code or response body.
C19_GenericErrorInProduction ==
    (ev.resp.status = 500 /\ nodeEnv = "production")
        => \A f \in UpstreamFailures : ev.resp.error /= ErrorMessage(f)

\* C20: every 200 of the station list carries a max-age of at least an hour
\* with a stale-while-revalidate of at least a day, and every 200 of the
\* schedule carries max-age 60 with stale-while-revalidate 300.
C20_FreshnessContract ==
    ev.resp.status = 200 =>
        IF ev.resp.endpoint = "stations"
        THEN \E a, b \in ev.resp.cacheControl :
                 /\ a[1] = "s-maxage" /\ a[2] >= 3600
                 /\ b[1] = "stale-while-revalidate" /\ b[2] >= 86400
        ELSE ev.resp.cacheControl =
                 {<<"s-maxage", 60>>, <<"stale-while-revalidate", 300>>}


C12_SecondCallSharesFirst ==
    [][(/\ cev'.kind = "getStations"
        /\ ~cev'.hit
        /\ \E d \in Callers : d # cev'.caller /\ callers[d].pc = "waiting")
       => cev'.issued = {}]_vars

\* C13: once the promise of a call has settled, resolved or rejected, the
\* registry holds no entry under its key, and every entry of the registry
\* is eventually deleted when every fetch is answered and every timer
\* fires.
C13_NoStuckMarker ==
    /\ [](cev.kind \in {"resolved", "rejected"} => inflightRequests[cev.gen] = 0)
    /\ [](\A g \in Gens :
             inflightRequests[g] # 0 => calls[inflightRequests[g]].st \in {"fetching", "sleeping"})
    /\ \A g \in Gens : (inflightRequests[g] # 0) ~> (inflightRequests[g] = 0)

\* The fourth 429 in a row has been surfaced and the registry is empty.
C13_Witness ==
    /\ cev.kind = "rejected"
    /\ cev.gen = 3
    /\ cev.delivered # {}
    /\ \A g \in Gens : inflightRequests[g] = 0

\* C14: a 429 sets a timer of 1 s, 2 s, 4 s for the generations 0, 1, 2 and
\* the retry runs exactly that long after the 429, as generation 1, 2, 3;
\* the 429 of generation 3 sets no timer and issues no call: it is
\* delivered to every waiting caller as a failure; a 200 of generation 3
\* is delivered as a success; every call that backs off does retry.
C14_BackoffSchedule ==
    /\ [](cev.kind = "backoff" =>
             /\ cev.gen \in 0..2
             /\ cev.delay = <<1000, 2000, 4000>>[cev.gen + 1])
    /\ [](cev.kind = "retry" =>
             /\ cev.gen \in 1..3
             /\ cev.delay = <<1000, 2000, 4000>>[cev.gen]
             /\ IF cev.joined = 0 THEN cev.issued = {cev.gen}
                ELSE cev.issued = {} /\ calls[cev.joined].gen = cev.gen)
    /\ [](cev.kind = "rejected" /\ cev.gen = 3 =>
             /\ cev.issued = {}
             /\ cev.delay = 0
             /\ cev.delivered # {}
             /\ \A d \in cev.delivered : ~d.ok
             /\ \A i \in CallIds : calls[i].st = "sleeping" => calls[i].gen < 3)
    /\ [](cev.kind = "resolved" /\ cev.gen = 3 =>
             /\ cev.delivered # {}
             /\ \A d \in cev.delivered : d.ok /\ d.val \in StationVals)
    /\ [](\A i \in CallIds : calls[i].gen \in 0..3)
    /\ \A g \in 0..2 :
          (inflightRequests[g] # 0 /\ calls[inflightRequests[g]].st = "sleeping")
              ~> (inflightRequests[g] = 0 \/ calls[inflightRequests[g]].st # "sleeping")

\* 429, 429, 429, 200: the call of generation 3 resolves 7 s after a
\* getStations that was called at time 0.
C14_Witness ==
    /\ cev.kind = "resolved"
    /\ cev.gen = 3
    /\ cev.delivered # {}
    /\ cnow = 7000


\* C15: in each of the three TTL caches (timetable, server station list,
\* client station list) a read while expires > now is answered from the
\* stored entry without invoking the fetch and without touching the cache;
\* a read when no entry is stored or expires <= now invokes the fetch
\* exactly once, and the result is stored with expires = the now of that
\* read + the TTL of the cache.
C15_TtlHitMissStore ==
    /\ [][(req[1].pc = "idle" /\ ev'.by = 1
              /\ (req'[1].pc = "stData" \/ ev'.resp.endpoint = "stations")) =>
          IF stationsCache /= <<>> /\ clock < stationsCache[1].expires
          THEN /\ ev'.sent = NoCall
               /\ ev'.resp.status = 200
               /\ ev'.resp.stations = StationsOf(stationsCache[1].data)
               /\ UNCHANGED stationsCache
          ELSE /\ ev'.sent.to = "stations"
               /\ ev'.resp = NoResp
               /\ req'[1].now = clock
               /\ UNCHANGED stationsCache]_vars
    /\ [][ev'.write = "stations" =>
          /\ req[1].pc = "stData"
          /\ ev'.sent = NoCall
          /\ stationsCache'[1].expires = req[1].now + 3600000
          /\ ev'.resp.stations = StationsOf(stationsCache'[1].data)]_vars
    /\ [][(req[1].pc = "idle" /\ ev'.by = 1
              /\ (req'[1].pc \in {"ttData", "lbData"}
                     \/ (ev'.resp.endpoint = "schedule" /\ ev'.resp.status = 200))) =>
          LET date == IF req'[1].pc = "idle" THEN ev'.resp.queryDate ELSE req'[1].queryDate
              key == IF date = TodayOf(clock) THEN <<"Today">> ELSE <<"TrainDate", date>>
              trains == IF req'[1].pc = "idle" THEN ev'.resp.allTrains
                        ELSE req'[1].allTrains
          IN IF key \in DOMAIN timetableCache /\ clock < timetableCache[key].expires
             THEN /\ ev'.sent.to /= "timetable"
                  /\ req'[1].pc /= "ttData"
                  /\ trains = timetableCache[key].data
                  /\ UNCHANGED timetableCache
             ELSE /\ ev'.sent.to = "timetable"
                  /\ req'[1].pc = "ttData"
                  /\ req'[1].now = clock
                  /\ req'[1].key = key
                  /\ UNCHANGED timetableCache]_vars
    /\ [][ev'.write = "timetable" =>
          /\ req[1].pc = "ttData"
          /\ ev'.sent.to /= "timetable"
          /\ timetableCache'[req[1].key].expires = req[1].now + 3600000
          /\ \A k \in DOMAIN timetableCache \ {req[1].key} :
                 timetableCache'[k] = timetableCache[k]]_vars
    /\ [][\A c \in Callers : (cev'.kind = "getStations" /\ cev'.caller = c) =>
          IF clientStationsCache /= <<>> /\ cnow < clientStationsCache[1].expires
          THEN /\ cev'.hit
               /\ cev'.issued = {} /\ cev'.joined = 0
               /\ cev'.delivered = {[caller |-> c, ok |-> TRUE,
                                     val |-> clientStationsCache[1].data]}
               /\ UNCHANGED <<clientStationsCache, inflightRequests, calls>>
          ELSE /\ ~cev'.hit
               /\ (cev'.issued = {0} /\ cev'.joined = 0)
                      \/ (cev'.issued = {} /\ cev'.joined /= 0)
               /\ callers'[c].pc = "waiting"
               /\ callers'[c].now = cnow
               /\ UNCHANGED clientStationsCache]_vars
    /\ [][cev'.stored /= <<>> =>
          /\ clientStationsCache' = cev'.stored
          /\ cev'.delivered /= {}
          /\ \E d \in cev'.delivered :
                 /\ d.ok
                 /\ cev'.stored[1].data = d.val
                 /\ cev'.stored[1].expires = callers[d.caller].now + 3600000
          /\ \A d \in cev'.delivered :
                 callers[d.caller].now + 3600000 <= cev'.stored[1].expires]_vars
    /\ [][clientStationsCache' /= clientStationsCache => cev'.stored /= <<>>]_vars
    /\ [][stationsCache' /= stationsCache => ev'.write = "stations"]_vars
    /\ [][timetableCache' /= timetableCache => ev'.write = "timetable"]_vars

\* A station list request arrives at exactly the entry's expires: it is a
\* miss and the station list is fetched again.
C15_Witness ==
    /\ stationsCache /= <<>>
    /\ stationsCache[1].expires = clock
    /\ ev.sent.to = "stations"


\* C21: a 304 is returned to the handler, not thrown, as {data: null,
\* notModified: true, lastModified: the If-Modified-Since value the call
\* was given}; a network error and every other non-success status is
\* thrown, the message of the error carrying the status code; and the step
\* that receives the live board's answer, whatever it is, sends no call.
C21_ConditionalFetchResult ==
    /\ [](ev.got.kind = "notModified" =>
             /\ ev.got.ims /= NoLM
             /\ ev.got.payload = <<>>
             /\ ev.got.lastModified = ev.got.ims
             /\ ev.got.error = <<>>
             /\ ev.resp.live \in {"notModified", "nodata"})
    /\ [](ev.got.kind = "liveFail" =>
             /\ ev.resp.live = "failed"
             /\ \/ ev.got.error = <<"fetch failed">>
                \/ /\ Len(ev.got.error) = 3
                   /\ ev.got.error[2] \in {429, 500})
    /\ [](ev.resp.live = "failed" => ev.got.kind \in {"liveFail", "tokenNetErr"})
    /\ [][ev'.got.kind \in {"notModified", "data", "nullBody", "liveFail"}
             => ev'.sent = NoCall]_vars

\* A conditional call was answered 304 after the board had been stored
\* with its Last-Modified.
C21_Witness ==
    /\ ev.got.kind = "notModified"
    /\ ev.got.lastModified /= NoLM
    /\ ev.resp.live = "notModified"
    /\ ev.resp.status = 200


\* C22: in every schedule response each train's status follows from the
\* delay map the response was built from: no value under its train number
\* gives "unknown", the value 0 gives "on-time", a value above 0 gives
\* "delayed".
C22_StatusFromDelay ==
    (ev.resp.endpoint = "schedule" /\ ev.resp.status = 200) =>
        LET trains == BodyOf(ev.resp).trains
            m == ev.resp.delayMap
        IN \A i \in 1..Len(trains) :
               /\ trains[i].trainNo \notin DOMAIN m => trains[i].status = "unknown"
               /\ (trains[i].trainNo \in DOMAIN m /\ m[trains[i].trainNo] = 0)
                      => trains[i].status = "on-time"
               /\ (trains[i].trainNo \in DOMAIN m /\ m[trains[i].trainNo] > 0)
                      => trains[i].status = "delayed"

\* Responses with a delayed and an unknown train, and with an on-time one,
\* have been sent: here the former.
C22_Witness ==
    /\ ev.resp.endpoint = "schedule"
    /\ ev.resp.status = 200
    /\ \E i, j \in 1..Len(BodyOf(ev.resp).trains) :
          /\ BodyOf(ev.resp).trains[i].status = "delayed"
          /\ BodyOf(ev.resp).trains[i].delay > 0
          /\ BodyOf(ev.resp).trains[j].status = "unknown"

\* C23: when a response is built from a live board just received, the
\* delay map holds a value only for the trains whose record carries a
\* DelayTime, and every train of the response without such a record has
\* the status "unknown".
C23_MissingDelayIsUnknown ==
    (ev.got.kind = "data" /\ ev.resp.status = 200) =>
        LET trains == BodyOf(ev.resp).trains
            Supplied(no) ==
                \E k \in 1..Len(ev.got.payload) :
                    ev.got.payload[k].TrainNo = no /\ ev.got.payload[k].hasDelay
        IN /\ \A no \in DOMAIN ev.resp.delayMap : Supplied(no)
           /\ \A i \in 1..Len(trains) :
                  ~Supplied(trains[i].trainNo) => trains[i].status = "unknown"

\* C24: the trains of a schedule response for origin O and destination D
\* are exactly the trains of the timetable whose stop list holds both O and
\* D with O before D, each of them once.
C24_ExactlyTheTrainsFromOToD ==
    (ev.resp.endpoint = "schedule" /\ ev.resp.status = 200) =>
        LET all == ev.resp.allTrains.TrainTimetables
            O == ev.resp.query.origin.s
            D == ev.resp.query.dest.s
            trains == BodyOf(ev.resp).trains
            Runs(t) ==
                \E i, j \in 1..Len(t.StopTimes) :
                    /\ i < j
                    /\ t.StopTimes[i].StationID = O
                    /\ t.StopTimes[j].StationID = D
        IN /\ {trains[i].trainNo : i \in 1..Len(trains)}
                = {all[k].TrainNo : k \in {n \in 1..Len(all) : Runs(all[n])}}
           /\ Len(trains) = Cardinality({n \in 1..Len(all) : Runs(all[n])})

\* A query against the direction of two trains of the timetable has been
\* answered with the one train that runs its way.
C24_Witness ==
    /\ ev.resp.endpoint = "schedule"
    /\ ev.resp.status = 200
    /\ ev.resp.query.origin.s = St1008
    /\ ev.resp.query.dest.s = St1000
    /\ Len(ev.resp.allTrains.TrainTimetables) = 4
    /\ Len(BodyOf(ev.resp).trains) = 1
    /\ BodyOf(ev.resp).trains[1].trainNo = "201"

\* C25: whenever a request is served from the timetable cache (the handler
\* passes from its start straight to the delay stage), the entry it is
\* given is the timetable of the date the request resolved to, never the
\* one of another date.
C25_EntryOnlyForItsDate ==
    [][\A r \in Reqs :
          (/\ req[r].pc = "idle"
           /\ \/ req'[r].pc = "lbData"
              \/ ev'.by = r /\ ev'.resp.endpoint = "schedule" /\ ev'.resp.status = 200)
          => LET T == IF req'[r].pc = "lbData" THEN req'[r] ELSE ev'.resp
             IN ~T.allTrains.isNull => T.allTrains.TrainDate = T.queryDate]_vars

\* C26: a train whose delay in the delay map is negative is reported with
\* the status "cancelled".
C26_NegativeDelayIsCancelled ==
    (ev.resp.endpoint = "schedule" /\ ev.resp.status = 200) =>
        LET trains == BodyOf(ev.resp).trains
            m == ev.resp.delayMap
        IN \A i \in 1..Len(trains) :
               (trains[i].trainNo \in DOMAIN m /\ m[trains[i].trainNo] < 0)
                   => trains[i].status = "cancelled"

\* C30: the Cache-Control header is on 200 responses of the schedule
\* endpoint only; no response with another status carries it.
C30_CacheControlOnlyOn200 ==
    (ev.resp.endpoint = "schedule" /\ ev.resp.status /= 200) => ev.resp.cacheControl = {}

\* C29: a live board answer never replaces the stored delay map with data
\* that the upstream published before the data the stored map came from
\* (the Last-Modified marker of the answer is not older than the marker of
\* the entry it replaces).
C29_NeverReplacedByOlderData ==
    [][(/\ ev'.got.kind = "data"
        /\ ev'.write = "replace"
        /\ ev'.got.lastModified /= NoLM
        /\ delayCache /= <<>>
        /\ delayCache[1].lastModified /= NoLM)
       => /\ delayCache'[1].lastModified = ev'.got.lastModified
          /\ ev'.got.lastModified >= delayCache[1].lastModified]_vars

\* C28: the token slot changes only when an exchange is answered with a
\* token, and then both fields are set from that one answer: cachedToken
\* to its token and tokenExpiresAt to the expiry computed from its
\* expires_in and the time the exchange began.  A refused or lost exchange
\* leaves both fields as they were.
C28_TokenSlotFromOneExchange ==
    [][/\ (cachedToken' /= cachedToken \/ tokenExpiresAt' /= tokenExpiresAt)
            => ev'.got.kind = "tokenOk"
       /\ ev'.got.kind = "tokenOk"
            => /\ tokSeq' = tokSeq + 1
               /\ cachedToken' = tokSeq'
               /\ tokenExpiresAt' = req[ev'.by].tnow + ev'.got.expires_in * 1000
                                        - TOKEN_SAFETY_MARGIN
       /\ ev'.got.kind \in {"tokenRefused", "tokenNetErr"}
            => UNCHANGED <<cachedToken, tokenExpiresAt>>]_vars

\* Two exchanges overlap: one has been answered with a token, now in the
\* slot with its expiry, while the exchange of the other request is still
\* pending.
C28_Witness ==
    /\ ev.got.kind = "tokenOk"
    /\ cachedToken = tokSeq
    /\ tokenExpiresAt = TokenExpiry(clock, ev.got.expires_in)
    /\ \E r \in Reqs \ {ev.by} : req[r].pc = "ttTok"

\* C27: when the handler calls for the live board with no delay entry
\* stored, the call carries no If-Modified-Since; when it calls with an
\* entry stored, the entry's interval has elapsed (now >= expires) and the
\* call carries the lastModified of the entry as it is at that moment.  The
\* request sent to the upstream carries what the call was given.
C27_ConditionalHeader ==
    [][/\ \A r \in Reqs :
             (req[r].pc \notin {"lbTok", "lbData"} /\ req'[r].pc \in {"lbTok", "lbData"})
             => IF delayCache = <<>>
                THEN req'[r].ims = NoLM
                ELSE /\ req'[r].now >= delayCache[1].expires
                     /\ req'[r].ims = delayCache[1].lastModified
       /\ ev'.sent.to = "live" => ev'.sent.ims = req'[ev'.by].ims]_vars

\* A live board call has been sent from the warm state with the marker of
\* the expired entry.
C27_Witness ==
    /\ ev.sent.to = "live"
    /\ delayCache /= <<>>
    /\ delayCache[1].lastModified /= NoLM
    /\ delayCache[1].expires <= req[ev.by].now
    /\ ev.sent.ims = delayCache[1].lastModified

====
